---- MODULE Spec2Model ----
(***************************************************************************)
(* AcmeProtocol (lib/acme-protocol.js): one client instance, its nonce     *)
(* pool, its memoized directory promise and the module-level AGENT header  *)
(* object, driven by a bounded number of concurrently running operations.  *)
(* JavaScript runs every callback to completion, so each action below is   *)
(* one synchronous call or one promise callback.  The ACME server and the  *)
(* signing collaborator are the environment: their answers are chosen      *)
(* nondeterministically when the matching callback runs.                   *)
(***************************************************************************)
EXTENDS Integers, Sequences, FiniteSets, TLC

\* Bounds of the model.
MaxOps    == 2   \* operations invoked on the client
MaxTokens == 2   \* distinct replay nonces the server issues

OpIds == 1..MaxOps

\* JavaScript's undefined, and JavaScript truthiness of a string-or-undefined.
Undefined == "<undefined>"
Truthy(x) == x # Undefined /\ x # ""

\* DEFAULTS.directoryURI, and the caller-supplied URIs used in the runs.
directoryURI == "https://acme-staging.api.letsencrypt.org/directory"
U2 == "https://ca.example/challenge/1"
U3 == "https://ca.example/authz/1"
U4 == "https://ca.example/reg/1"

\* The key of the client: only its thumbprint is read by the protocol code.
privateKey == [thumbprint |-> "K"]

\* Directory documents the server may answer with: one holding only new-reg,
\* one holding all but new-reg, so that every endpoint is present in one and
\* missing from the other.
EndpointNames == {"new-reg", "new-authz", "new-cert"}
EndpointURI(name) == "https://ca.example/acme/" \o name
DirBodies ==
  { [n \in EndpointNames |-> IF n \in S THEN EndpointURI(n) ELSE Undefined] :
      S \in {{"new-reg"}, {"new-authz", "new-cert"}} }
NoDir == [n \in EndpointNames |-> Undefined]

VARIABLES
  nonces,      \* this.nonces: the pool, an array of tokens
  dirPromise,  \* this.dirPromise: "unset", "pending", "fulfilled", "rejected"
  dirBody,     \* the value dirPromise is fulfilled with
  AGENT,       \* the header names of the shared AGENT object
  ops,         \* the operations invoked so far and where each stands
  issued,      \* server side: how many of its replay nonces the client has read
  fetches,     \* history: how many GETs of the directory URI were sent
  taken,       \* history: the tokens _nonce has handed out from the pool
  input,       \* the argument a helper function is applied to
  output       \* what the helper function returned for it

vars == <<nonces, dirPromise, dirBody, AGENT, ops, issued, fetches, taken,
          input, output>>

\* The i-th nonce the server issues.  A replay nonce is single use: the server
\* never issues the same one twice.
Tok(i) == "n" \o ToString(i)
Tokens == { Tok(i) : i \in 1..MaxTokens }

\* The values a response's replay-nonce header can have: absent, empty, or the
\* next fresh nonce.
NonceHeaders ==
  {Undefined, ""} \cup (IF issued < MaxTokens THEN {Tok(issued + 1)} ELSE {})
Issue(h) == IF h \in Tokens THEN issued + 1 ELSE issued

\* A request handed to request-promise: its method, URI and header names.
Req(method, uri, headers) ==
  [method |-> method, uri |-> uri, headers |-> headers]

NoResult == [type |-> "undefined"]
NoBody   == [resource |-> Undefined]
NoArg    == [none |-> TRUE]

\* An operation that has not been invoked.
IdleOp ==
  [kind     |-> "none",     \* the method invoked
   arg      |-> NoArg,      \* its arguments
   pc       |-> "idle",     \* where it stands
   resolved |-> FALSE,      \* its directory().then callback has run
   dir      |-> NoDir,      \* the directory that callback received
   uri      |-> Undefined,  \* _post: uri
   body     |-> NoBody,     \* _post: body
   binary   |-> FALSE,      \* _post: binary
   nonce    |-> Undefined,  \* the nonce _nonce resolved with
   fromPool |-> FALSE,      \* that nonce was shifted off the pool
   poolBefore |-> 0,        \* length of the pool when _nonce was called
   signed   |-> FALSE,      \* crypto.generateSignature was called
   sent     |-> <<>>,       \* the requests it handed to request-promise
   err      |-> Undefined,  \* message of the error it threw or rejected with
   result   |-> NoResult]   \* the value it fulfilled with

\* No helper function has been applied.
NoInput == [present |-> FALSE]
NotRun  == [done |-> FALSE]

\* A client as its constructor leaves it.
Constructed ==
  /\ nonces = <<>>
  /\ dirPromise = "unset"
  /\ dirBody = NoDir
  /\ AGENT = {"User-Agent"}
  /\ ops = [i \in OpIds |-> IdleOp]
  /\ issued = 0
  /\ fetches = 0
  /\ taken = {}

Init ==
  /\ Constructed
  /\ input = NoInput
  /\ output = NotRun

----------------------------------------------------------------------------
\* Helpers: how an operation ends, Array.prototype.shift, the guarded push.
\* A settled operation keeps what its caller holds (the method, its arguments
\* after a throw, the error or the value); the locals of the call are gone.

\* A synchronous throw out of the method: nothing else has happened.
Throw(i, o, msg) ==
  ops' = [ops EXCEPT ![i] =
            [IdleOp EXCEPT !.kind = o.kind, !.arg = o.arg,
                           !.pc = "thrown", !.err = msg]]

\* The promise the method returned is rejected.
Reject(i, o, msg) ==
  ops' = [ops EXCEPT ![i] =
            [IdleOp EXCEPT !.kind = o.kind, !.pc = "rejected", !.err = msg]]

\* The promise the method returned is fulfilled.
Fulfill(i, o, value) ==
  ops' = [ops EXCEPT ![i] =
            [IdleOp EXCEPT !.kind = o.kind, !.pc = "fulfilled",
                           !.result = value]]

\* Mutant of shift: reads the first element and leaves it in the array.
shift_peek(q) ==
  IF q = <<>> THEN [val |-> Undefined, rest |-> <<>>]
              ELSE [val |-> Head(q), rest |-> q]

\* this.nonces.shift(): the first element (undefined when empty) and the rest.
shift(q) ==
  IF q = <<>> THEN [val |-> Undefined, rest |-> <<>>]
              ELSE [val |-> Head(q), rest |-> Tail(q)]

\* Mutant of deposit: pushes whenever the header is present, even if empty.
deposit_present(q, h) ==
  IF h # Undefined THEN Append(q, h) ELSE q

\* if (resp.headers['replay-nonce']) { this.nonces.push(...) }
deposit(q, h) ==
  IF Truthy(h) THEN Append(q, h) ELSE q

----------------------------------------------------------------------------
\* JavaScript objects as records: reading a property that may be missing, and
\* assigning a property.
Get(obj, f) == IF f \in DOMAIN obj THEN obj[f] ELSE Undefined
Set(obj, f, v) ==
  [k \in (DOMAIN obj) \cup {f} |-> IF k = f THEN v ELSE obj[k]]

\* crypto.generateSignature(privateKey, nonce, body): the signed envelope.
generateSignature(key, nonce, body) ==
  [signedBy |-> key.thumbprint, nonce |-> nonce, payload |-> body]

\* parseDomain(domain): null unless the name has a known public suffix.
KnownSuffixes == {"example.com"}
parseDomain(domain) ==
  IF domain \in KnownSuffixes THEN [domain |-> domain] ELSE [domain |-> "null"]
ParsedNull == [domain |-> "null"]

\* jose.util.base64url.encode(csr)
base64urlEncode(csr) == "b64url(" \o csr \o ")"

----------------------------------------------------------------------------
\* AcmeProtocol._nonce(uri), called on behalf of operation i whose record is
\* o: take the first pooled nonce, or send the HEAD probe.
_nonce(i, o, uri) ==
  LET s == shift(nonces) IN
  /\ nonces' = s.rest
  /\ IF Truthy(s.val)
     THEN /\ ops' = [ops EXCEPT ![i] =
                       [o EXCEPT !.pc = "nonce", !.nonce = s.val,
                                 !.fromPool = TRUE,
                                 !.poolBefore = Len(nonces)]]
          /\ taken' = taken \cup {s.val}
     ELSE /\ ops' = [ops EXCEPT ![i] =
                       [o EXCEPT !.pc = "head",
                                 !.poolBefore = Len(nonces),
                                 !.sent = Append(@, Req("HEAD", uri, AGENT))]]
          /\ taken' = taken

\* AcmeProtocol._post(uri, body, binary): its synchronous part is the call of
\* _nonce; the rest runs in the callbacks Sign, Dispatch and PostResponse.
_post(i, o, uri, body, binary) ==
  _nonce(i, [o EXCEPT !.uri = uri, !.body = body, !.binary = binary], uri)

\* Mutant of directory: fetches on every call, memoizing nothing.
directory_refetch(i, o) ==
  /\ dirPromise' = "pending"
  /\ fetches' = fetches + 1
  /\ ops' = [ops EXCEPT ![i] =
               [o EXCEPT !.pc = "dir",
                         !.sent = Append(@, Req("GET", directoryURI, AGENT))]]

\* AcmeProtocol.directory(): the first call sends the GET and stores the
\* promise; every call returns the stored promise.
directory(i, o) ==
  IF dirPromise = "unset"
  THEN /\ dirPromise' = "pending"
       /\ fetches' = fetches + 1
       /\ ops' = [ops EXCEPT ![i] =
                    [o EXCEPT !.pc = "dir",
                              !.sent = Append(@, Req("GET", directoryURI, AGENT))]]
  ELSE /\ UNCHANGED <<dirPromise, fetches>>
       /\ ops' = [ops EXCEPT ![i] = [o EXCEPT !.pc = "dir"]]

----------------------------------------------------------------------------
\* The synchronous part of each public method.  Operation i is the next one
\* the caller invokes.
Invoke(i) ==
  /\ ops[i].pc = "idle"
  /\ IF i = 1 THEN TRUE ELSE ops[i - 1].pc # "idle"

Started(i, kind, arg) == [ops[i] EXCEPT !.kind = kind, !.arg = arg]

\* A caller's own directory() call.
CallDirectory(i) ==
  /\ Invoke(i)
  /\ directory(i, Started(i, "directory", NoArg))
  /\ UNCHANGED <<nonces, dirBody, AGENT, issued, taken>>
  /\ UNCHANGED <<input, output>>

\* Mutant of newRegistration: posts to the well-known endpoint without
\* resolving the directory.
newRegistration_nodir(i, contacts, agreement) ==
  LET o == Started(i, "newRegistration",
                   [contacts |-> contacts, agreement |-> agreement]) IN
  /\ Invoke(i)
  /\ IF ~contacts.isArray
     THEN /\ Throw(i, o, "contacts must be non-empty array of URIs")
          /\ UNCHANGED <<nonces, dirPromise, fetches, taken>>
     ELSE /\ _post(i, o, EndpointURI("new-reg"),
                   [resource |-> "new-reg", contact |-> contacts.items], FALSE)
          /\ UNCHANGED <<dirPromise, fetches>>
  /\ UNCHANGED <<dirBody, AGENT, issued>>
  /\ UNCHANGED <<input, output>>

newRegistration(i, contacts, agreement) ==
  LET o == Started(i, "newRegistration",
                   [contacts |-> contacts, agreement |-> agreement]) IN
  /\ Invoke(i)
  /\ IF ~contacts.isArray
     THEN /\ Throw(i, o, "contacts must be non-empty array of URIs")
          /\ UNCHANGED <<dirPromise, fetches>>
     ELSE directory(i, o)
  /\ UNCHANGED <<nonces, dirBody, AGENT, issued, taken>>
  /\ UNCHANGED <<input, output>>

get(i, uri) ==
  /\ Invoke(i)
  /\ ops' = [ops EXCEPT ![i] =
               [Started(i, "get", [uri |-> uri]) EXCEPT
                  !.pc = "get", !.sent = Append(@, Req("GET", uri, AGENT))]]
  /\ UNCHANGED <<nonces, dirPromise, dirBody, AGENT, issued, fetches, taken>>
  /\ UNCHANGED <<input, output>>

updateRegistration(i, uri, registration) ==
  LET o == Started(i, "updateRegistration",
                   [uri |-> uri, registration |-> registration]) IN
  /\ Invoke(i)
  /\ IF ~Truthy(uri)
     THEN /\ Throw(i, o, "No registration URI provided")
          /\ UNCHANGED <<nonces, taken>>
     ELSE _post(i, o, uri, Set(registration, "resource", "reg"), FALSE)
  /\ UNCHANGED <<dirPromise, dirBody, AGENT, issued, fetches>>
  /\ UNCHANGED <<input, output>>

\* Mutant of newAuthorization: checks the domain only in the directory
\* callback, after directory() was called.
newAuthorization_late(i, domain) ==
  /\ Invoke(i)
  /\ directory(i, Started(i, "newAuthorization", [domain |-> domain]))
  /\ UNCHANGED <<nonces, dirBody, AGENT, issued, taken>>
  /\ UNCHANGED <<input, output>>

newAuthorization(i, domain) ==
  LET o == Started(i, "newAuthorization", [domain |-> domain]) IN
  /\ Invoke(i)
  /\ IF parseDomain(domain) = ParsedNull
     THEN /\ Throw(i, o, "Authorization can only be done for domain names")
          /\ UNCHANGED <<dirPromise, fetches>>
     ELSE directory(i, o)
  /\ UNCHANGED <<nonces, dirBody, AGENT, issued, taken>>
  /\ UNCHANGED <<input, output>>

\* Mutant of respondToChallenge: keeps a keyAuthorization the challenge
\* already carries.
respondToChallenge_keep(i, challenge) ==
  LET o == Started(i, "respondToChallenge", [challenge |-> challenge]) IN
  /\ Invoke(i)
  /\ IF ~Truthy(Get(challenge, "uri"))
     THEN /\ Throw(i, o, "Invalid challenge object")
          /\ UNCHANGED <<nonces, taken>>
     ELSE _post(i, o, challenge.uri,
                IF Truthy(Get(challenge, "keyAuthorization"))
                THEN Set(challenge, "resource", "challenge")
                ELSE Set(Set(challenge, "resource", "challenge"),
                         "keyAuthorization",
                         Get(challenge, "token") \o "." \o privateKey.thumbprint),
                FALSE)
  /\ UNCHANGED <<dirPromise, dirBody, AGENT, issued, fetches>>
  /\ UNCHANGED <<input, output>>

respondToChallenge(i, challenge) ==
  LET o == Started(i, "respondToChallenge", [challenge |-> challenge]) IN
  /\ Invoke(i)
  /\ IF ~Truthy(Get(challenge, "uri"))
     THEN /\ Throw(i, o, "Invalid challenge object")
          /\ UNCHANGED <<nonces, taken>>
     ELSE _post(i, o, challenge.uri,
                Set(Set(challenge, "resource", "challenge"),
                    "keyAuthorization",
                    Get(challenge, "token") \o "." \o privateKey.thumbprint),
                FALSE)
  /\ UNCHANGED <<dirPromise, dirBody, AGENT, issued, fetches>>
  /\ UNCHANGED <<input, output>>

checkAuthorizationStatus(i, uri) ==
  /\ Invoke(i)
  /\ ops' = [ops EXCEPT ![i] =
               [Started(i, "checkAuthorizationStatus", [uri |-> uri]) EXCEPT
                  !.pc = "get", !.sent = Append(@, Req("GET", uri, {}))]]
  /\ UNCHANGED <<nonces, dirPromise, dirBody, AGENT, issued, fetches, taken>>
  /\ UNCHANGED <<input, output>>

newCertificate(i, csr) ==
  /\ Invoke(i)
  /\ directory(i, Started(i, "newCertificate", [csr |-> csr]))
  /\ UNCHANGED <<nonces, dirBody, AGENT, issued, taken>>
  /\ UNCHANGED <<input, output>>

----------------------------------------------------------------------------
\* The callbacks.  request-promise rejects on a transport failure and on a
\* non-2xx status alike.
RequestFailed == "request failed"

\* Mutant of DirectoryResponse: the nonce of the response is pushed twice.
DirectoryResponse_twice ==
  /\ dirPromise = "pending"
  /\ \/ \E body \in DirBodies, h \in NonceHeaders :
          /\ nonces' = deposit(deposit(nonces, h), h)
          /\ issued' = Issue(h)
          /\ dirBody' = body
          /\ dirPromise' = "fulfilled"
     \/ /\ dirPromise' = "rejected"
        /\ UNCHANGED <<nonces, issued, dirBody>>
  /\ UNCHANGED <<AGENT, ops, fetches, taken>>
  /\ UNCHANGED <<input, output>>

\* The directory GET is answered: the callback given to rp.get(...).then in
\* directory() deposits the nonce and fulfils this.dirPromise with the body;
\* a failed GET rejects it.
DirectoryResponse ==
  /\ dirPromise = "pending"
  /\ \/ \E body \in DirBodies, h \in NonceHeaders :
          /\ nonces' = deposit(nonces, h)
          /\ issued' = Issue(h)
          /\ dirBody' = body
          /\ dirPromise' = "fulfilled"
     \/ /\ dirPromise' = "rejected"
        /\ UNCHANGED <<nonces, issued, dirBody>>
  /\ UNCHANGED <<AGENT, ops, fetches, taken>>
  /\ UNCHANGED <<input, output>>

\* Operation i got the promise of directory() and that promise is fulfilled:
\* its then-callback may run.
DirReady(i, kind) ==
  /\ ops[i].kind = kind
  /\ ops[i].pc = "dir"
  /\ dirPromise = "fulfilled"

GotDir(i) == [ops[i] EXCEPT !.resolved = TRUE, !.dir = dirBody]

\* The caller of directory() receives the directory.
directoryThen(i) ==
  /\ DirReady(i, "directory")
  /\ Fulfill(i, GotDir(i), [type |-> "directory", value |-> dirBody])
  /\ UNCHANGED <<nonces, dirPromise, dirBody, AGENT, issued, fetches, taken>>
  /\ UNCHANGED <<input, output>>

\* Mutant of DirectoryRejected: the operation fetches the directory again.
DirectoryRejected_retry(i) ==
  /\ ops[i].pc = "dir"
  /\ dirPromise = "rejected"
  /\ IF fetches < 2
     THEN /\ dirPromise' = "pending"
          /\ fetches' = fetches + 1
          /\ ops' = [ops EXCEPT ![i].sent =
                       Append(@, Req("GET", directoryURI, AGENT))]
     ELSE /\ Reject(i, ops[i], RequestFailed)
          /\ UNCHANGED <<dirPromise, fetches>>
  /\ UNCHANGED <<nonces, dirBody, AGENT, issued, taken>>
  /\ UNCHANGED <<input, output>>

\* The rejection of this.dirPromise reaches operation i.
DirectoryRejected(i) ==
  /\ ops[i].pc = "dir"
  /\ dirPromise = "rejected"
  /\ Reject(i, ops[i], RequestFailed)
  /\ UNCHANGED <<nonces, dirPromise, dirBody, AGENT, issued, fetches, taken>>
  /\ UNCHANGED <<input, output>>

\* Mutant of newRegistrationThen: writes the agreement field whether or not an
\* agreement was given.
newRegistrationThen_agreed(i) ==
  /\ DirReady(i, "newRegistration")
  /\ LET o   == GotDir(i)
         dir == dirBody
         payload == [resource |-> "new-reg", contact |-> o.arg.contacts.items]
     IN IF ~Truthy(dir["new-reg"])
        THEN /\ Reject(i, o, "No new-registration endpoint available")
             /\ UNCHANGED <<nonces, taken>>
        ELSE _post(i, o, dir["new-reg"],
                   Set(payload, "agreement", o.arg.agreement), FALSE)
  /\ UNCHANGED <<dirPromise, dirBody, AGENT, issued, fetches>>
  /\ UNCHANGED <<input, output>>

newRegistrationThen(i) ==
  /\ DirReady(i, "newRegistration")
  /\ LET o   == GotDir(i)
         dir == dirBody
         contacts  == o.arg.contacts
         agreement == o.arg.agreement
         payload   == [resource |-> "new-reg", contact |-> contacts.items]
     IN IF ~Truthy(dir["new-reg"])
        THEN /\ Reject(i, o, "No new-registration endpoint available")
             /\ UNCHANGED <<nonces, taken>>
        ELSE _post(i, o, dir["new-reg"],
                   IF Truthy(agreement)
                   THEN Set(payload, "agreement", agreement)
                   ELSE payload,
                   FALSE)
  /\ UNCHANGED <<dirPromise, dirBody, AGENT, issued, fetches>>
  /\ UNCHANGED <<input, output>>

newAuthorizationThen(i) ==
  /\ DirReady(i, "newAuthorization")
  /\ LET o   == GotDir(i)
         dir == dirBody
     IN IF ~Truthy(dir["new-authz"])
        THEN /\ Reject(i, o, "No new-authorization endpoint available")
             /\ UNCHANGED <<nonces, taken>>
        ELSE _post(i, o, dir["new-authz"],
                   [resource   |-> "new-authz",
                    identifier |-> [type |-> "dns", value |-> o.arg.domain]],
                   FALSE)
  /\ UNCHANGED <<dirPromise, dirBody, AGENT, issued, fetches>>
  /\ UNCHANGED <<input, output>>

\* Mutant of newCertificateThen: posts without looking the endpoint up first.
newCertificateThen_unchecked(i) ==
  /\ DirReady(i, "newCertificate")
  /\ _post(i, GotDir(i), dirBody["new-cert"],
           [resource |-> "new-cert", csr |-> base64urlEncode(GotDir(i).arg.csr)],
           TRUE)
  /\ UNCHANGED <<dirPromise, dirBody, AGENT, issued, fetches>>
  /\ UNCHANGED <<input, output>>

newCertificateThen(i) ==
  /\ DirReady(i, "newCertificate")
  /\ LET o   == GotDir(i)
         dir == dirBody
     IN IF ~Truthy(dir["new-cert"])
        THEN /\ Reject(i, o, "No new-certificate endpoint available")
             /\ UNCHANGED <<nonces, taken>>
        ELSE _post(i, o, dir["new-cert"],
                   [resource |-> "new-cert", csr |-> base64urlEncode(o.arg.csr)],
                   TRUE)
  /\ UNCHANGED <<dirPromise, dirBody, AGENT, issued, fetches>>
  /\ UNCHANGED <<input, output>>

\* Mutant of HeadResponse: hands on whatever the header holds instead of
\* throwing when it is missing.
HeadResponse_nothrow(i) ==
  /\ ops[i].pc = "head"
  /\ \/ \E h \in NonceHeaders :
          /\ issued' = Issue(h)
          /\ ops' = [ops EXCEPT ![i].pc = "nonce", ![i].nonce = h]
     \/ /\ Reject(i, ops[i], RequestFailed)
        /\ UNCHANGED issued
  /\ UNCHANGED <<nonces, dirPromise, dirBody, AGENT, fetches, taken>>
  /\ UNCHANGED <<input, output>>

\* The HEAD probe of _nonce is answered: the nonce of the response, or the
\* error 'No nonce available'; a failed probe rejects.
HeadResponse(i) ==
  /\ ops[i].pc = "head"
  /\ \/ \E h \in NonceHeaders :
          /\ issued' = Issue(h)
          /\ IF Truthy(h)
             THEN ops' = [ops EXCEPT ![i].pc = "nonce", ![i].nonce = h]
             ELSE Reject(i, ops[i], "No nonce available")
     \/ /\ Reject(i, ops[i], RequestFailed)
        /\ UNCHANGED issued
  /\ UNCHANGED <<nonces, dirPromise, dirBody, AGENT, fetches, taken>>
  /\ UNCHANGED <<input, output>>

\* Mutant of Sign: a failed signing returns the nonce to the pool.
Sign_putback(i) ==
  /\ ops[i].pc = "nonce"
  /\ \/ /\ ops' = [ops EXCEPT ![i].pc = "signed", ![i].signed = TRUE]
        /\ UNCHANGED nonces
     \/ /\ Reject(i, [ops[i] EXCEPT !.signed = TRUE], "signing failed")
        /\ nonces' = <<ops[i].nonce>> \o nonces
  /\ UNCHANGED <<dirPromise, dirBody, AGENT, issued, fetches, taken>>
  /\ UNCHANGED <<input, output>>

\* _post, first callback: the nonce is there, the signing collaborator is
\* called; it yields the envelope or fails.
Sign(i) ==
  /\ ops[i].pc = "nonce"
  /\ \/ ops' = [ops EXCEPT ![i].pc = "signed", ![i].signed = TRUE]
     \/ Reject(i, [ops[i] EXCEPT !.signed = TRUE], "signing failed")
  /\ UNCHANGED <<nonces, dirPromise, dirBody, AGENT, issued, fetches, taken>>
  /\ UNCHANGED <<input, output>>

\* JSON.stringify(jws)
JSONstringify(jws) == [text |-> jws]

\* _post, second callback: build the options around the shared AGENT object
\* (the binary path adds Content-Type to it) and send the POST.
Dispatch(i) ==
  /\ ops[i].pc = "signed"
  /\ LET o   == ops[i]
         jws == generateSignature(privateKey, o.nonce, o.body)
         hdr == IF o.binary THEN AGENT \cup {"Content-Type"} ELSE AGENT
         req == [method  |-> "POST", uri |-> o.uri, headers |-> hdr,
                 json    |-> ~o.binary,
                 body    |-> IF o.binary THEN JSONstringify(jws)
                                         ELSE [envelope |-> jws]]
     IN /\ AGENT' = hdr
        /\ ops' = [ops EXCEPT ![i].pc = "post", ![i].sent = Append(@, req)]
  /\ UNCHANGED <<nonces, dirPromise, dirBody, issued, fetches, taken>>
  /\ UNCHANGED <<input, output>>

\* Mutant of PostResponse: the nonce of the response is dropped.
PostResponse_nodeposit(i) ==
  /\ ops[i].pc = "post"
  /\ \/ \E h \in NonceHeaders :
          /\ nonces' = nonces
          /\ issued' = Issue(h)
          /\ Fulfill(i, ops[i], [type |-> "response", binary |-> ops[i].binary])
     \/ /\ Reject(i, ops[i], RequestFailed)
        /\ UNCHANGED <<nonces, issued>>
  /\ UNCHANGED <<dirPromise, dirBody, AGENT, fetches, taken>>
  /\ UNCHANGED <<input, output>>

\* _post, third callback: the POST is answered; a nonce in the response is
\* deposited and the wrapped body returned.  A failed POST (no response, or a
\* non-2xx response, whose headers nobody reads) rejects before the callback
\* is reached.
PostResponse(i) ==
  /\ ops[i].pc = "post"
  /\ \/ \E h \in NonceHeaders :
          /\ nonces' = deposit(nonces, h)
          /\ issued' = Issue(h)
          /\ Fulfill(i, ops[i], [type |-> "response", binary |-> ops[i].binary])
     \/ /\ Reject(i, ops[i], RequestFailed)
        /\ UNCHANGED <<nonces, issued>>
  /\ UNCHANGED <<dirPromise, dirBody, AGENT, fetches, taken>>
  /\ UNCHANGED <<input, output>>

\* The statuses an authorization document can carry.
Statuses == {"pending", "valid"}

\* Mutant of GetResponse: deposits the nonce of the response as _post does.
GetResponse_deposit(i) ==
  /\ ops[i].pc = "get"
  /\ \/ \E st \in Statuses, h \in NonceHeaders :
          LET authz == [status |-> st, identifier |-> "dns"] IN
          /\ issued' = Issue(h)
          /\ nonces' = deposit(nonces, h)
          /\ IF ops[i].kind = "checkAuthorizationStatus"
             THEN Fulfill(i, ops[i], [type |-> "string", value |-> authz.status])
             ELSE Fulfill(i, ops[i], [type |-> "document", value |-> authz])
     \/ /\ Reject(i, ops[i], RequestFailed)
        /\ UNCHANGED <<nonces, issued>>
  /\ UNCHANGED <<dirPromise, dirBody, AGENT, fetches, taken>>
  /\ UNCHANGED <<input, output>>

\* The GET of get() or checkAuthorizationStatus() is answered: get() fulfils
\* with the document, checkAuthorizationStatus() with its status field.
\* Neither callback reads the headers of the response, whatever replay-nonce
\* they carry.
GetResponse(i) ==
  /\ ops[i].pc = "get"
  /\ \/ \E st \in Statuses :
          LET authz == [status |-> st, identifier |-> "dns"] IN
          IF ops[i].kind = "checkAuthorizationStatus"
          THEN Fulfill(i, ops[i], [type |-> "string", value |-> authz.status])
          ELSE Fulfill(i, ops[i], [type |-> "document", value |-> authz])
     \/ Reject(i, ops[i], RequestFailed)
  /\ UNCHANGED <<nonces, dirPromise, dirBody, AGENT, issued, fetches, taken>>
  /\ UNCHANGED <<input, output>>

----------------------------------------------------------------------------
\* The arguments the callers pass.
NotAnArray == [isArray |-> FALSE, items |-> <<>>]
EmptyList  == [isArray |-> TRUE, items |-> <<>>]
OneContact == [isArray |-> TRUE, items |-> <<"mailto:a@example.com">>]
RegistrationCalls ==
  { [contacts |-> NotAnArray, agreement |-> Undefined],
    [contacts |-> EmptyList,  agreement |-> Undefined],
    [contacts |-> OneContact, agreement |-> Undefined],
    [contacts |-> OneContact, agreement |-> "https://ca.example/terms"] }
LocationInputs  == {"", U4}
RegistrationInputs == { [contact |-> <<"mailto:b@example.com">>] }
DomainInputs    == {"example.com", "not a domain"}
ChallengeInputs ==
  { [type |-> "http-01", token |-> "T"],
    [type |-> "http-01", token |-> "T", uri |-> U2,
     keyAuthorization |-> "stale"] }

Next ==
  \E i \in OpIds :
    \/ CallDirectory(i)
    \/ \E a \in RegistrationCalls : newRegistration(i, a.contacts, a.agreement)
    \/ get(i, U3)
    \/ \E u \in LocationInputs, r \in RegistrationInputs :
         updateRegistration(i, u, r)
    \/ \E d \in DomainInputs : newAuthorization(i, d)
    \/ \E ch \in ChallengeInputs : respondToChallenge(i, ch)
    \/ checkAuthorizationStatus(i, U3)
    \/ newCertificate(i, "CSR")
    \/ DirectoryResponse
    \/ directoryThen(i)
    \/ DirectoryRejected(i)
    \/ newRegistrationThen(i)
    \/ newAuthorizationThen(i)
    \/ newCertificateThen(i)
    \/ HeadResponse(i)
    \/ Sign(i)
    \/ Dispatch(i)
    \/ PostResponse(i)
    \/ GetResponse(i)

Spec == Init /\ [][Next]_vars

\* The same client driven by a caller that awaits each operation before it
\* invokes the next.
Quiet == \A j \in OpIds : ops[j].pc \in {"idle", "thrown", "rejected", "fulfilled"}
SeqNext ==
  \E i \in OpIds :
    \/ Quiet /\ CallDirectory(i)
    \/ Quiet /\ \E a \in RegistrationCalls :
                  newRegistration(i, a.contacts, a.agreement)
    \/ Quiet /\ get(i, U3)
    \/ Quiet /\ \E u \in LocationInputs, r \in RegistrationInputs :
                  updateRegistration(i, u, r)
    \/ Quiet /\ \E d \in DomainInputs : newAuthorization(i, d)
    \/ Quiet /\ \E ch \in ChallengeInputs : respondToChallenge(i, ch)
    \/ Quiet /\ checkAuthorizationStatus(i, U3)
    \/ Quiet /\ newCertificate(i, "CSR")
    \/ DirectoryResponse
    \/ directoryThen(i)
    \/ DirectoryRejected(i)
    \/ newRegistrationThen(i)
    \/ newAuthorizationThen(i)
    \/ newCertificateThen(i)
    \/ HeadResponse(i)
    \/ Sign(i)
    \/ Dispatch(i)
    \/ PostResponse(i)
    \/ GetResponse(i)

SpecSeq == Init /\ [][SeqNext]_vars

----------------------------------------------------------------------------
\* _parseLink.  A JavaScript string is the sequence of its characters.

\* The smallest index from j on whose character is in S (notIn = FALSE) or
\* outside S (notIn = TRUE); Len(s) + 1 when there is none.
FirstFrom(s, j, S, notIn) ==
  LET C == { k \in j..Len(s) : (s[k] \in S) # notIn } IN
  IF C = {} THEN Len(s) + 1 ELSE CHOOSE k \in C : \A m \in C : k <= m

\* String.prototype.split with a one-character separator.
RECURSIVE split(_, _)
split(s, sep) ==
  LET k == FirstFrom(s, 1, {sep}, FALSE) IN
  IF k > Len(s) THEN <<s>>
  ELSE <<SubSeq(s, 1, k - 1)>> \o split(SubSeq(s, k + 1, Len(s)), sep)

\* String.prototype.trim; the white space of these runs is the blank.
trim(s) ==
  LET B == { k \in 1..Len(s) : s[k] # " " } IN
  IF B = {} THEN <<>>
  ELSE SubSeq(s, FirstFrom(s, 1, {" "}, TRUE),
              CHOOSE k \in B : \A m \in B : m <= k)

\* .replace(/^<([^>]*)>$/, '$1')
stripBrackets(s) ==
  IF /\ Len(s) >= 2
     /\ s[1] = "<"
     /\ s[Len(s)] = ">"
     /\ \A k \in 2..(Len(s) - 1) : s[k] # ">"
  THEN SubSeq(s, 2, Len(s) - 1)
  ELSE s

\* .match(/^([^= ]+) *= *"([^"]+)"$/): the two groups, or no match.
matchAttribute(p) ==
  LET keyEnd == FirstFrom(p, 1, {"=", " "}, FALSE)
      eq     == FirstFrom(p, keyEnd, {" "}, TRUE)
      open   == FirstFrom(p, eq + 1, {" "}, TRUE)
      close  == FirstFrom(p, open + 1, {"\""}, FALSE)
  IN IF /\ keyEnd > 1
        /\ eq <= Len(p) /\ p[eq] = "="
        /\ open <= Len(p) /\ p[open] = "\""
        /\ close = Len(p)
        /\ close > open + 1
     THEN [matched |-> TRUE, key |-> SubSeq(p, 1, keyEnd - 1),
           value |-> SubSeq(p, open + 1, close - 1)]
     ELSE [matched |-> FALSE]

\* The property names _parseLink reads and writes.
REL == <<"r", "e", "l">>
URL == <<"u", "r", "l">>
EmptyObject == [k \in {} |-> <<>>]

\* parts.reduce(function(acc, p) {...}, {}): the attributes of a segment.
RECURSIVE attributes(_, _)
attributes(parts, acc) ==
  IF parts = <<>> THEN acc
  ELSE LET m == matchAttribute(trim(Head(parts))) IN
       attributes(Tail(parts),
                  IF m.matched THEN Set(acc, m.key, m.value) ELSE acc)

\* The callback of link.split(',').map: one segment to its info object.
segmentInfo(lnk) ==
  LET parts == split(trim(lnk), ";") IN
  Set(attributes(Tail(parts), EmptyObject), URL, stripBrackets(Head(parts)))

\* .reduce((acc, info) => {...}, {}): each info with a rel writes its URL.
RECURSIVE relations(_, _)
relations(infos, acc) ==
  IF infos = <<>> THEN acc
  ELSE relations(Tail(infos),
                 IF REL \in DOMAIN Head(infos)
                 THEN Set(acc, Head(infos)[REL], Head(infos)[URL])
                 ELSE acc)

\* What _parseLink returns: null, or an object from rel values to URLs.
Null == [null |-> TRUE]
Links(obj) == [null |-> FALSE, rels |-> obj]

\* Mutant of _parseLink: goes through the segments from the last to the
\* first, so that the first of two segments with the same rel wins.
_parseLink_first(link) ==
  IF ~link.present THEN Null
  ELSE LET lnks == split(link.text, ",")
           n    == Len(lnks)
       IN Links(relations([k \in 1..n |-> segmentInfo(lnks[n + 1 - k])],
                          EmptyObject))

\* _parseLink(link): link.split throws on an absent header and the catch
\* returns null; otherwise the segments are mapped and reduced in order.
_parseLink(link) ==
  IF ~link.present THEN Null
  ELSE LET lnks == split(link.text, ",") IN
       Links(relations([k \in DOMAIN lnks |-> segmentInfo(lnks[k])],
                       EmptyObject))

\* The Link headers of the runs: up to MaxSegments segments, each with a URI
\* and possibly a rel, quoted or bare, and a title; written without blanks,
\* with a blank after each separator, or with blanks around "=" as well.
MaxSegments == 2
Uris      == { <<"a">>, <<"b", "/", "c">> }
RelValues == { <<"x">>, <<"u", "p">> }
NoRel     == <<>>
Segments ==
  { s \in [uri : Uris, rel : RelValues \cup {NoRel}, quoted : BOOLEAN,
           title : BOOLEAN] : s.rel = NoRel => s.quoted }
Styles == {"tight", "spaced", "wide"}

Quote(v, quoted) == IF quoted THEN <<"\"">> \o v \o <<"\"">> ELSE v
Attribute(key, v, quoted, style) ==
  (IF style = "tight" THEN <<";">> ELSE <<";", " ">>)
    \o key
    \o (IF style = "wide" THEN <<" ", "=", " ">> ELSE <<"=">>)
    \o Quote(v, quoted)
SegmentText(s, style) ==
  <<"<">> \o s.uri \o <<">">>
    \o (IF s.rel = NoRel THEN <<>> ELSE Attribute(REL, s.rel, s.quoted, style))
    \o (IF s.title
        THEN Attribute(<<"t", "i", "t", "l", "e">>, <<"t">>, TRUE, style)
        ELSE <<>>)
RECURSIVE HeaderText(_, _)
HeaderText(segs, style) ==
  IF Len(segs) = 1 THEN SegmentText(segs[1], style)
  ELSE SegmentText(Head(segs), style)
         \o (IF style = "tight" THEN <<",">> ELSE <<",", " ">>)
         \o HeaderText(Tail(segs), style)

Absent == [present |-> FALSE]
LinkHeaders ==
  {Absent} \cup
  { [present |-> TRUE, segs |-> segs, text |-> HeaderText(segs, style)] :
      segs \in UNION { [1..n -> Segments] : n \in 1..MaxSegments },
      style \in Styles }

\* out[LINKS] = _parseLink(resp.headers.link)
parseLinkCall ==
  /\ ~output.done
  /\ output' = [done |-> TRUE, value |-> _parseLink(input)]
  /\ UNCHANGED <<nonces, dirPromise, dirBody, AGENT, ops, issued, fetches,
                 taken, input>>

LinkInit ==
  /\ Constructed
  /\ input \in LinkHeaders
  /\ output = NotRun

LinkNext == parseLinkCall

SpecLink == LinkInit /\ [][LinkNext]_vars

----------------------------------------------------------------------------
\* AcmeUtils.validJWK.  A JavaScript value is a record with its type; an
\* object carries its own properties as a function from names to values.
Str(chars)   == [type |-> "string", chars |-> chars]
Num          == [type |-> "number"]
JSUndefined  == [type |-> "undefined"]
JSNull       == [type |-> "null"]
Obj(props)   == [type |-> "object", props |-> props]

\* The characters /[^a-zA-Z0-9_-]/ does not match.
B64Alphabet ==
  {"a", "b", "c", "d", "e", "f", "g", "h", "i", "j", "k", "l", "m",
   "n", "o", "p", "q", "r", "s", "t", "u", "v", "w", "x", "y", "z",
   "A", "B", "C", "D", "E", "F", "G", "H", "I", "J", "K", "L", "M",
   "N", "O", "P", "Q", "R", "S", "T", "U", "V", "W", "X", "Y", "Z",
   "0", "1", "2", "3", "4", "5", "6", "7", "8", "9", "_", "-"}

\* AcmeUtils.isB64String(x)
isB64String(x) ==
  /\ x.type = "string"
  /\ \A k \in DOMAIN x.chars : x.chars[k] \in B64Alphabet

\* AcmeUtils.fieldsPresent(fields, object), fields being an array
fieldsPresent(fields, object) ==
  IF object.type # "object" THEN FALSE
  ELSE \A k \in DOMAIN fields : fields[k] \in DOMAIN object.props

\* object[name]
Prop(object, name) ==
  IF name \in DOMAIN object.props THEN object.props[name] ELSE JSUndefined

RSA == Str(<<"R", "S", "A">>)
EC  == Str(<<"E", "C">>)

\* Mutant of validJWK: does not look for the private exponent.
validJWK_private(jwk) ==
  IF ~fieldsPresent(<<"kty">>, jwk) THEN FALSE
  ELSE CASE Prop(jwk, "kty") = RSA ->
              isB64String(Prop(jwk, "n")) /\ isB64String(Prop(jwk, "e"))
         [] Prop(jwk, "kty") = EC ->
              /\ Prop(jwk, "crv").type = "string"
              /\ isB64String(Prop(jwk, "x"))
              /\ isB64String(Prop(jwk, "y"))
         [] OTHER -> FALSE

\* AcmeUtils.validJWK(jwk)
validJWK(jwk) ==
  IF ~fieldsPresent(<<"kty">>, jwk) \/ "d" \in DOMAIN jwk.props THEN FALSE
  ELSE CASE Prop(jwk, "kty") = RSA ->
              isB64String(Prop(jwk, "n")) /\ isB64String(Prop(jwk, "e"))
         [] Prop(jwk, "kty") = EC ->
              /\ Prop(jwk, "crv").type = "string"
              /\ isB64String(Prop(jwk, "x"))
              /\ isB64String(Prop(jwk, "y"))
         [] OTHER -> FALSE

\* The values of the runs.  Base64url strings (the empty one encodes no
\* bytes), strings that are not, and a value that is no string.
Base64urlStrings == { Str(<<"A", "Q", "A", "B">>), Str(<<"x", "-", "_", "9">>),
                      Str(<<>>) }
OtherStrings     == { Str(<<"a", "+", "/">>), Str(<<"A", "Q", "=", "=">>) }
KeyTypes         == { RSA, EC, Str(<<"o", "c", "t">>), Str(<<"r", "s", "a">>), Num }
Curves           == { Str(<<"P", "-", "2", "5", "6">>), Str(<<"P", " ", "1">>), Num }
Missing          == [type |-> "missing"]

\* The objects of the runs: every way of leaving out or filling in the fields
\* validJWK looks at; and null.
FieldValues(name) ==
  {Missing} \cup
  CASE name = "kty" -> KeyTypes
    [] name = "crv" -> Curves
    [] name = "d"   -> { Str(<<"A", "Q">>) }
    [] name \in {"n", "x"} -> Base64urlStrings \cup OtherStrings \cup {Num}
    [] OTHER -> { Str(<<"A", "Q", "A", "B">>), Str(<<"a", "+", "/">>), Num }
JWKFields == {"kty", "n", "e", "crv", "x", "y", "d"}
Filled(c) ==
  Obj([name \in { f \in JWKFields : c[f] # Missing } |-> c[name]])
JWKs ==
  {JSNull} \cup
  { Filled([kty |-> kty, n |-> n, e |-> e, crv |-> crv, x |-> x, y |-> y,
            d |-> d]) :
      kty \in FieldValues("kty"), n \in FieldValues("n"),
      e \in FieldValues("e"), crv \in FieldValues("crv"),
      x \in FieldValues("x"), y \in FieldValues("y"),
      d \in FieldValues("d") }

\* A caller validates a key.
validJWKCall ==
  /\ ~output.done
  /\ output' = [done |-> TRUE, value |-> validJWK(input)]
  /\ UNCHANGED <<nonces, dirPromise, dirBody, AGENT, ops, issued, fetches,
                 taken, input>>

JWKInit ==
  /\ Constructed
  /\ input \in JWKs
  /\ output = NotRun

JWKNext == validJWKCall

SpecJWK == JWKInit /\ [][JWKNext]_vars

----------------------------------------------------------------------------
\* Vocabulary of the properties.
Range(q) == { q[k] : k \in DOMAIN q }

\* The requests of an operation other than the GET of the directory.
OtherRequests(o) == SelectSeq(o.sent, LAMBDA r : r.uri # directoryURI)

\* The positions at which an operation holds the nonce _nonce resolved with.
HoldsNonce(i) == ops[i].pc \in {"nonce", "signed", "post"}

\* Methods that call directory() and methods that do not.
DirKinds == {"newRegistration", "newAuthorization", "newCertificate"}
DirectKinds ==
  {"updateRegistration", "respondToChallenge", "checkAuthorizationStatus", "get"}

\* The endpoint a method looks up and the error it raises when it is missing.
Endpoint(kind) ==
  CASE kind = "newRegistration"  -> "new-reg"
    [] kind = "newAuthorization" -> "new-authz"
    [] kind = "newCertificate"   -> "new-cert"
MissingError(kind) ==
  CASE kind = "newRegistration"  -> "No new-registration endpoint available"
    [] kind = "newAuthorization" -> "No new-authorization endpoint available"
    [] kind = "newCertificate"   -> "No new-certificate endpoint available"
MissingErrors == { MissingError(k) : k \in DirKinds }

----------------------------------------------------------------------------
\* C1: however many directory() calls are made and however they interleave,
\* at most one GET of the directory URI is ever sent, exactly one once any
\* call was made, and every caller whose call is answered receives the one
\* document that fetch returned.
DirectoryFetchedOnce ==
  /\ fetches <= 1
  /\ dirPromise # "unset" => fetches = 1
  /\ \A i \in OpIds :
       /\ ops[i].pc = "dir" => fetches = 1
       /\ ops[i].resolved => ops[i].dir = dirBody
       /\ (ops[i].kind = "directory" /\ ops[i].pc = "fulfilled")
            => ops[i].result.value = dirBody
  /\ \A i, j \in OpIds :
       (/\ ops[i].kind = "directory" /\ ops[i].pc = "fulfilled"
        /\ ops[j].kind = "directory" /\ ops[j].pc = "fulfilled")
         => ops[i].result = ops[j].result

\* Two callers of directory() have both received the directory.
TwoCallersOneFetch ==
  /\ ops[1].kind = "directory" /\ ops[1].pc = "fulfilled"
  /\ ops[2].kind = "directory" /\ ops[2].pc = "fulfilled"
  /\ fetches = 1

\* C2: a directory() call made after the fetch has failed sends a new GET of
\* the directory URI.
FailedDirectoryIsRetried ==
  [][\A i \in OpIds :
       (dirPromise = "rejected" /\ ops[i].pc = "idle" /\ ops'[i].pc = "dir")
         => fetches' = fetches + 1]_vars

\* C3: a token handed out from the pool is gone from the pool and is never
\* handed out from it again: no pooled token was handed out before, every
\* pooled entry is distinct, and no two operations hold the same pool entry.
NonceNeverReissued ==
  /\ Range(nonces) \cap taken = {}
  /\ \A k, l \in DOMAIN nonces : k # l => nonces[k] # nonces[l]
  /\ \A i \in OpIds :
       ops[i].fromPool => /\ ops[i].nonce \in taken
                          /\ ops[i].nonce \notin Range(nonces)
  /\ \A i, j \in OpIds :
       (i # j /\ HoldsNonce(i) /\ HoldsNonce(j)) => ops[i].nonce # ops[j].nonce

\* Two signed requests run concurrently; one took the pooled token, the other
\* found the pool empty and got its nonce from a probe.
ConcurrentTakers ==
  \E i, j \in OpIds :
    /\ i # j
    /\ HoldsNonce(i) /\ ops[i].fromPool
    /\ HoldsNonce(j) /\ ~ops[j].fromPool

\* C4: _nonce sends the HEAD probe exactly when the pool is empty at the take:
\* with a non-empty pool it removes one token, resolves with it and sends
\* nothing; with an empty pool it sends exactly one HEAD to the given URI.
TakeStep(i) ==
  /\ ops[i].pc \in {"idle", "dir"}
  /\ ops'[i].pc \in {"nonce", "head"}
ProbeIffPoolEmpty ==
  [][\A i \in OpIds : TakeStep(i) =>
       /\ (ops'[i].pc = "head") <=> (nonces = <<>>)
       /\ nonces # <<>> =>
            /\ ops'[i].nonce \in Range(nonces)
            /\ Len(nonces') = Len(nonces) - 1
            /\ ops'[i].nonce \notin Range(nonces')
            /\ OtherRequests(ops'[i]) = <<>>
       /\ nonces = <<>> =>
            /\ nonces' = <<>>
            /\ Len(OtherRequests(ops'[i])) = 1
            /\ OtherRequests(ops'[i])[1].method = "HEAD"
            /\ OtherRequests(ops'[i])[1].uri = ops'[i].uri]_vars

\* One operation was served from the pool while another is probing.
PoolHitAndProbe ==
  \E i, j \in OpIds :
    /\ ops[i].pc = "nonce" /\ ops[i].fromPool
    /\ ops[j].pc = "head"

\* C5: the answer to a probe either yields a usable nonce or ends the signed
\* request: it is rejected ('No nonce available' when the header is missing)
\* with the pool untouched, the signing collaborator never called and no POST
\* sent.
ProbeWithoutNonceRejects ==
  [][\A i \in OpIds : (ops[i].pc = "head" /\ ops'[i].pc # "head") =>
       \/ /\ ops'[i].pc = "nonce"
          /\ Truthy(ops'[i].nonce)
       \/ /\ ops'[i].pc = "rejected"
          /\ ops'[i].err \in {"No nonce available", RequestFailed}
          /\ nonces' = nonces
          /\ AGENT' = AGENT
          /\ ~ops[i].signed
          /\ \A k \in DOMAIN ops[i].sent : ops[i].sent[k].method # "POST"]_vars

\* A signed request ended with 'No nonce available' and the pool is empty.
NoNonceAvailable ==
  \E i \in OpIds :
    /\ ops[i].pc = "rejected"
    /\ ops[i].err = "No nonce available"
    /\ nonces = <<>>

\* C6 as stated: every workflow operation has resolved the directory before
\* it sends any other request.
EveryOperationResolvesFirst ==
  \A i \in OpIds :
    (ops[i].kind \in DirKinds \cup DirectKinds /\ OtherRequests(ops[i]) # <<>>)
      => ops[i].resolved

\* C6, amended: newRegistration, newAuthorization and newCertificate have
\* resolved the directory before they send any other request; the operations
\* that are given their URI (updateRegistration, respondToChallenge,
\* checkAuthorizationStatus, get) never resolve the directory and send their
\* requests straight to that URI.
DirectoryOperationsResolveFirst ==
  \A i \in OpIds :
    /\ (ops[i].kind \in DirKinds /\ OtherRequests(ops[i]) # <<>>)
         => (ops[i].resolved /\ dirPromise = "fulfilled")
    /\ ops[i].kind \in DirectKinds =>
         /\ ~ops[i].resolved
         /\ ops[i].pc # "dir"
         /\ OtherRequests(ops[i]) = ops[i].sent

\* A newRegistration has sent its POST after resolving the directory while an
\* operation that is given its URI has sent a request without resolving it.
ResolvedAndDirect ==
  \E i, j \in OpIds :
    /\ ops[i].kind = "newRegistration" /\ ops[i].pc = "post" /\ ops[i].resolved
    /\ ops[j].kind \in DirectKinds /\ ops[j].sent # <<>> /\ ~ops[j].resolved

\* C7: when the directory an operation receives lacks its endpoint, the
\* operation is rejected with the error naming that endpoint, and that step
\* takes no nonce and sends nothing; when the endpoint is there, the same
\* step goes on to the signed request for that endpoint.
MissingEndpointRejects ==
  [][\A i \in OpIds :
       (/\ ops[i].kind \in DirKinds
        /\ ops[i].pc = "dir" /\ ops'[i].pc # "dir"
        /\ dirPromise = "fulfilled") =>
         IF ~Truthy(dirBody[Endpoint(ops[i].kind)])
         THEN /\ ops'[i].pc = "rejected"
              /\ ops'[i].err = MissingError(ops[i].kind)
              /\ OtherRequests(ops[i]) = <<>>
              /\ UNCHANGED <<nonces, taken, AGENT, fetches, issued>>
         ELSE /\ ops'[i].pc \in {"nonce", "head"}
              /\ ops'[i].uri = dirBody[Endpoint(ops[i].kind)]]_vars

\* On one directory, an operation was rejected for its missing endpoint and
\* another operation, whose endpoint is present, was fulfilled.
MissingAndPresent ==
  \E i, j \in OpIds :
    /\ ops[i].pc = "rejected" /\ ops[i].err \in MissingErrors
    /\ ops[j].kind \in DirKinds /\ ops[j].pc = "fulfilled"

\* The invalid inputs of C8.
InvalidInput(o) ==
  CASE o.kind = "newRegistration"    -> ~o.arg.contacts.isArray
    [] o.kind = "updateRegistration" -> o.arg.uri = ""
    [] o.kind = "newAuthorization"   -> o.arg.domain \notin KnownSuffixes
    [] o.kind = "respondToChallenge" -> "uri" \notin DOMAIN o.arg.challenge
    [] OTHER -> FALSE

\* C8: a call with non-array contacts, an empty location, an invalid domain
\* or a challenge without uri throws at once: the pool, the memoized
\* directory and the shared headers are unchanged and nothing was sent.
ValidationFailsFast ==
  [][\A i \in OpIds :
       (ops[i].pc = "idle" /\ ops'[i].pc # "idle" /\ InvalidInput(ops'[i])) =>
         /\ ops'[i].pc = "thrown"
         /\ ops'[i].sent = <<>>
         /\ UNCHANGED <<nonces, dirPromise, dirBody, AGENT, issued, fetches,
                        taken>>]_vars

\* Two calls have thrown on their input and nothing has been fetched.
ThrownBeforeNetwork ==
  /\ ops[1].pc = "thrown" /\ ops[1].kind = "newAuthorization"
  /\ ops[2].pc = "thrown" /\ ops[2].kind = "newRegistration"
  /\ dirPromise = "unset" /\ fetches = 0 /\ nonces = <<>>

\* C9: newRegistration called with an empty list of contacts throws and goes
\* no further.
EmptyContactsRejected ==
  \A i \in OpIds :
    (ops[i].kind = "newRegistration" /\ ops[i].pc \in {"dir", "thrown"})
      => (ops[i].arg.contacts = EmptyList => ops[i].pc = "thrown")

\* C10: every request the client sends carries the User-Agent header.
EveryRequestIdentified ==
  \A i \in OpIds :
    \A k \in DOMAIN ops[i].sent : "User-Agent" \in ops[i].sent[k].headers

----------------------------------------------------------------------------
\* The POST requests an operation has sent, and the payload the envelope of a
\* non-binary POST was signed over.
Posts(o) == SelectSeq(o.sent, LAMBDA r : r.method = "POST")
SignedPayload(r) == r.body.envelope.payload

\* C11: newRegistration sends no POST before its directory callback has run
\* and at most one after; that POST goes to the new-reg endpoint of the
\* directory, is signed with the nonce the operation took, and its payload
\* carries the contacts as given and an agreement field exactly when a
\* non-empty agreement was given.
RegistrationPayload ==
  \A i \in OpIds :
    ops[i].kind = "newRegistration" =>
      /\ Len(Posts(ops[i])) <= 1
      /\ (Posts(ops[i]) # <<>>) <=> (ops[i].pc = "post")
      /\ ops[i].pc = "post" =>
           LET r == Posts(ops[i])[1]
               p == SignedPayload(r)
           IN /\ r.uri = dirBody["new-reg"]
              /\ r.body.envelope.signedBy = privateKey.thumbprint
              /\ r.body.envelope.nonce = ops[i].nonce
              /\ Truthy(ops[i].nonce)
              /\ p.resource = "new-reg"
              /\ p.contact = ops[i].arg.contacts.items
              /\ ("agreement" \in DOMAIN p) <=> Truthy(ops[i].arg.agreement)
              /\ "agreement" \in DOMAIN p => p.agreement = ops[i].arg.agreement

\* A registration with one contact and no agreement has been posted, and
\* another with an agreement.
RegistrationPosted ==
  /\ ops[1].kind = "newRegistration" /\ ops[1].pc = "post"
  /\ ops[1].arg = [contacts |-> OneContact, agreement |-> Undefined]
  /\ "agreement" \notin DOMAIN SignedPayload(Posts(ops[1])[1])
  /\ ops[2].kind = "newRegistration" /\ ops[2].pc = "post"
  /\ Truthy(ops[2].arg.agreement)
  /\ "agreement" \in DOMAIN SignedPayload(Posts(ops[2])[1])

\* C12: the POST of respondToChallenge goes to challenge.uri; its payload is
\* the challenge tagged resource = "challenge" with keyAuthorization equal to
\* token + "." + thumbprint, whatever keyAuthorization the challenge carried.
KeyAuthorizationComputed ==
  \A i \in OpIds :
    (ops[i].kind = "respondToChallenge" /\ ops[i].pc = "post") =>
      LET ch == ops[i].arg.challenge
          r  == Posts(ops[i])[1]
          p  == SignedPayload(r)
      IN /\ Len(Posts(ops[i])) = 1
         /\ r.uri = ch.uri
         /\ p.resource = "challenge"
         /\ p.keyAuthorization = ch.token \o "." \o privateKey.thumbprint
         /\ p.keyAuthorization = "T.K"
         /\ p.token = ch.token /\ p.type = ch.type /\ p.uri = ch.uri

\* A challenge that came with a keyAuthorization of its own has been answered.
StaleKeyAuthorizationReplaced ==
  \E i \in OpIds :
    /\ ops[i].kind = "respondToChallenge" /\ ops[i].pc = "post"
    /\ ops[i].arg.challenge.keyAuthorization = "stale"
    /\ SignedPayload(Posts(ops[i])[1]).keyAuthorization = "T.K"

\* C13: get and checkAuthorizationStatus send one GET that carries no signed
\* envelope, and neither the call nor the handling of its response changes the
\* nonce pool, the set of nonces taken, or the memoized directory, whatever
\* nonce the response carries; checkAuthorizationStatus fulfils with a bare
\* status string; once settled, the operation sends nothing more.
ReadKinds == {"get", "checkAuthorizationStatus"}
Settled == {"thrown", "rejected", "fulfilled"}
StatusCheckIsReadOnly ==
  [][\A i \in OpIds :
       /\ (ops[i].pc = "idle" /\ ops'[i].kind \in ReadKinds) =>
            /\ ops'[i].pc = "get"
            /\ Len(ops'[i].sent) = 1
            /\ ops'[i].sent[1].method = "GET"
            /\ ops'[i].sent[1].uri = ops'[i].arg.uri
            /\ "body" \notin DOMAIN ops'[i].sent[1]
            /\ ~ops'[i].signed /\ ops'[i].nonce = Undefined
            /\ UNCHANGED <<nonces, taken, dirPromise, dirBody, fetches, issued>>
       /\ (ops[i].pc = "get" /\ ops'[i] # ops[i]) =>
            /\ ops'[i].pc \in {"fulfilled", "rejected"}
            /\ UNCHANGED <<nonces, taken, dirPromise, dirBody, fetches>>
            /\ (ops'[i].pc = "fulfilled"
                  /\ ops'[i].kind = "checkAuthorizationStatus")
                 => ops'[i].result \in [type : {"string"}, value : Statuses]
       /\ (ops[i].kind \in ReadKinds /\ ops[i].pc \in Settled) =>
            ops'[i] = ops[i]]_vars

\* A status check has been answered "pending": the pool is empty as it was and
\* nothing was fetched.
PendingStatusReturned ==
  \E i \in OpIds :
    /\ ops[i].kind = "checkAuthorizationStatus" /\ ops[i].pc = "fulfilled"
    /\ ops[i].result = [type |-> "string", value |-> "pending"]
    /\ issued = 0 /\ nonces = <<>> /\ taken = {} /\ dirPromise = "unset"
    /\ \A j \in OpIds : ops[j].kind \in ReadKinds \cup {"none"}

\* C15: the base header set stays as it was defined, and a request that is not
\* a binary-mode POST never carries Content-Type.
BinaryPost(r) == r.method = "POST" /\ ~r.json
BaseHeadersImmutable ==
  /\ AGENT = {"User-Agent"}
  /\ \A i \in OpIds : \A k \in DOMAIN ops[i].sent :
       ~BinaryPost(ops[i].sent[k]) => "Content-Type" \notin ops[i].sent[k].headers

\* C18: an invocation sends at most one GET of the directory, one HEAD and one
\* POST, each request is added after the ones before it, a failed request or a
\* failed directory fetch ends the operation rejected with that failure, and
\* an operation that has ended changes no more and sends nothing more.
Sent(o, method) == SelectSeq(o.sent, LAMBDA r : r.method = method)
NoRetry ==
  [][\A i \in OpIds :
       /\ Len(SelectSeq(ops'[i].sent, LAMBDA r : r.uri = directoryURI)) <= 1
       /\ Len(Sent(ops'[i], "HEAD")) <= 1
       /\ Len(Sent(ops'[i], "POST")) <= 1
       /\ Len(ops'[i].sent) <= 3
       /\ ops[i].pc \in Settled => ops'[i] = ops[i]
       /\ (ops[i].pc = "dir" /\ dirPromise = "rejected" /\ ops'[i] # ops[i]) =>
            /\ ops'[i].pc = "rejected" /\ ops'[i].err = RequestFailed
            /\ ops'[i].sent = <<>>
       /\ (ops'[i].pc = "rejected" /\ ops[i].pc \notin Settled) =>
            /\ ops'[i].sent = <<>>
            /\ UNCHANGED <<nonces, dirPromise, fetches, taken>>]_vars

\* One operation has sent its three requests and waits for the answer to the
\* POST; the other has been rejected by a failed request.
ThreeRequestsAndAFailure ==
  /\ ops[1].kind = "newRegistration" /\ ops[1].pc = "post"
  /\ Len(ops[1].sent) = 3
  /\ ops[1].sent[1].uri = directoryURI
  /\ ops[1].sent[2].method = "HEAD"
  /\ ops[1].sent[3].method = "POST"
  /\ ops[2].pc = "rejected" /\ ops[2].err = RequestFailed

\* C19: the answer to the directory GET appends the nonce it carries to the
\* pool once, and the callbacks of the callers awaiting the directory append
\* nothing; on a client that has exchanged nothing else with the server, the
\* first _nonce call after such an answer resolves with that nonce, empties
\* the pool and sends no HEAD.
OnlyDirectoryFetched(i) ==
  /\ dirPromise = "fulfilled"
  /\ issued = 1
  /\ taken = {}
  /\ \A j \in OpIds \ {i} :
       ops[j].pc \in {"idle", "dir", "thrown"} \/ ops[j].kind = "directory"
DirectoryNonceDepositedOnce ==
  [][/\ (dirPromise = "pending" /\ dirPromise' = "fulfilled") =>
          nonces' = IF issued' # issued THEN Append(nonces, Tok(issued'))
                                        ELSE nonces
     /\ \A i \in OpIds :
          /\ (ops[i].pc = "dir" /\ ops'[i] # ops[i]) =>
               \/ nonces' = nonces
               \/ TakeStep(i) /\ nonces # <<>> /\ nonces' = Tail(nonces)
          /\ (TakeStep(i) /\ OnlyDirectoryFetched(i)) =>
               /\ ops'[i].pc = "nonce"
               /\ ops'[i].nonce = Tok(1)
               /\ ops'[i].fromPool
               /\ Sent(ops'[i], "HEAD") = <<>>
               /\ nonces = <<Tok(1)>> /\ nonces' = <<>>]_vars

\* Two callers awaited the one fetch; the directory() caller has its document
\* and the registration holds the nonce that came with it, without a probe.
DirectoryNonceTaken ==
  /\ ops[1].kind = "directory" /\ ops[1].pc = "fulfilled"
  /\ ops[2].kind = "newRegistration" /\ ops[2].pc = "nonce"
  /\ ops[2].nonce = Tok(1) /\ ops[2].fromPool
  /\ ops[2].sent = <<>>
  /\ fetches = 1 /\ issued = 1 /\ nonces = <<>>

\* C20: when an operation that holds a nonce is rejected (the signing fails,
\* or the POST fails with or without a response), that step leaves the pool
\* as it is and the nonce stays out of it; the take before it had shortened a
\* non-empty pool by one, so the failed request never lengthens the pool.
FailedRequestBurnsNonce ==
  [][\A i \in OpIds :
       /\ (HoldsNonce(i) /\ ops'[i].pc = "rejected") =>
            /\ nonces' = nonces
            /\ issued' = issued
            /\ Truthy(ops[i].nonce)
            /\ ops[i].nonce \notin Range(nonces')
            /\ ops[i].fromPool => ops[i].nonce \in taken'
       /\ (TakeStep(i) /\ nonces # <<>>) =>
            /\ nonces' = Tail(nonces)
            /\ ops'[i].nonce = Head(nonces)
       /\ (TakeStep(i) /\ nonces = <<>>) => nonces' = <<>>
       /\ HoldsNonce(i) => ops[i].nonce \notin Range(nonces')]_vars

\* One request took the nonce of the directory response from the pool and
\* failed at signing; the other found the pool empty, probed, and its POST
\* failed: both nonces are gone and the pool is empty.
TwoNoncesBurnt ==
  /\ ops[1].kind \in DirKinds
  /\ ops[1].pc = "rejected" /\ ops[1].err = "signing failed"
  /\ ops[2].pc = "rejected" /\ ops[2].err = RequestFailed
  /\ taken = {Tok(1)}
  /\ issued = 2
  /\ nonces = <<>>

\* C17: a signed request that is fulfilled has used one nonce, taken from the
\* pool or fetched by its one HEAD probe and written into the envelope it
\* posted; the step that fulfils it appends the nonce of the response to the
\* pool when the response carries one and leaves the pool alone otherwise.
\* When operations run one after the other and the response carries a nonce,
\* the pool is then as long as it was when the request took its nonce, or
\* holds one token when it was empty.
Envelope(r) == IF r.json THEN r.body.envelope ELSE r.body.text
NonceBalance ==
  [][\A i \in OpIds :
       (ops[i].pc = "post" /\ ops'[i].pc = "fulfilled") =>
         /\ Truthy(ops[i].nonce)
         /\ ops[i].nonce \notin Range(nonces)
         /\ Len(Posts(ops[i])) = 1
         /\ Envelope(Posts(ops[i])[1]).nonce = ops[i].nonce
         /\ ops[i].fromPool <=> Sent(ops[i], "HEAD") = <<>>
         /\ ops[i].fromPool <=> ops[i].poolBefore > 0
         /\ nonces' = IF issued' # issued THEN Append(nonces, Tok(issued'))
                                          ELSE nonces
         /\ issued' # issued =>
              Len(nonces') = IF ops[i].poolBefore > 0 THEN ops[i].poolBefore
                                                      ELSE 1]_vars

\* A registration took the nonce that came with the directory, leaving the
\* pool empty, and was answered with a nonce: the pool holds one token again.
PoolRefilled ==
  /\ ops[1].kind = "newRegistration" /\ ops[1].pc = "fulfilled"
  /\ ops[2].pc = "idle"
  /\ taken = {Tok(1)}
  /\ issued = 2
  /\ nonces = <<Tok(2)>>

\* C14: for a header of segments <URI>; rel="value"; ..., _parseLink returns
\* the object that has exactly the rel values of the segments with a quoted
\* rel as its keys and maps each to the URI of the last such segment; a
\* segment with a bare rel or with none adds nothing; for an absent header it
\* returns null and throws nothing.
QuotedRel(segs) == { k \in DOMAIN segs : segs[k].rel # NoRel /\ segs[k].quoted }
LastWith(segs, r) ==
  CHOOSE k \in QuotedRel(segs) :
    /\ segs[k].rel = r
    /\ \A m \in QuotedRel(segs) : segs[m].rel = r => m <= k
ExpectedLinks(segs) ==
  [r \in { segs[k].rel : k \in QuotedRel(segs) } |-> segs[LastWith(segs, r)].uri]
LastRelWins ==
  output.done =>
    IF input.present THEN output.value = Links(ExpectedLinks(input.segs))
                     ELSE output.value = Null

\* <a>; rel="x", <b/c>; rel="x" has been parsed: x maps to b/c.
SameRelTwice ==
  /\ output.done
  /\ input.present
  /\ input.text = <<"<", "a", ">", ";", " ", "r", "e", "l", "=", "\"", "x", "\"",
                    ",", " ",
                    "<", "b", "/", "c", ">", ";", " ", "r", "e", "l", "=", "\"",
                    "x", "\"">>
  /\ output.value = Links([r \in {<<"x">>} |-> <<"b", "/", "c">>])

\* C16: validJWK returns false for every object that has a property d; for an
\* object without d it returns true exactly when kty is "RSA" and n and e are
\* base64url strings, or kty is "EC", crv is a string and x and y are
\* base64url strings.
Has(object, name) == name \in DOMAIN object.props
PublicKeyShape(jwk) ==
  \/ /\ Has(jwk, "kty") /\ jwk.props.kty = RSA
     /\ Has(jwk, "n") /\ jwk.props.n \in Base64urlStrings
     /\ Has(jwk, "e") /\ jwk.props.e \in Base64urlStrings
  \/ /\ Has(jwk, "kty") /\ jwk.props.kty = EC
     /\ Has(jwk, "crv") /\ jwk.props.crv \in Curves \ {Num}
     /\ Has(jwk, "x") /\ jwk.props.x \in Base64urlStrings
     /\ Has(jwk, "y") /\ jwk.props.y \in Base64urlStrings
PrivateKeyRejected ==
  (output.done /\ input.type = "object") =>
    /\ Has(input, "d") => output.value = FALSE
    /\ ~Has(input, "d") => (output.value <=> PublicKeyShape(input))

\* An RSA key that would pass but for its private exponent has been rejected.
PrivateRSARejected ==
  /\ output.done
  /\ input.type = "object"
  /\ Has(input, "d")
  /\ PublicKeyShape(input)
  /\ input.props.kty = RSA
  /\ output.value = FALSE

====
